---- MODULE Spec2Model ----
(***************************************************************************)
(* A model of the prediction feedback loop of CURSOR-SMC-MAIN:             *)
(*   src/src/ml/prediction_tracker.py   PredictionTracker                  *)
(*   src/src/ml/continuous_learner.py   ContinuousLearner                  *)
(*   src/src/ml/model_manager.py        ModelManager                       *)
(*                                                                         *)
(* Time is counted in quarter hours (the finest verification window, M1,   *)
(* is 0.25 h), prices in units of 0.0001 (1.0850 is 10850).  Percentages   *)
(* and accuracies are exact fractions [num, den], compared by cross        *)
(* multiplication, so a threshold is met or missed exactly.                *)
(***************************************************************************)
EXTENDS Integers, Sequences, FiniteSets, TLC

VARIABLES
    now,         \* datetime.now(), in quarter hours
    repository,  \* PredictionTracker.repository is set (TRUE) or None (FALSE)
    preds,       \* the repository's prediction rows, by id (1..Len(preds))
    bulk,        \* further rows of instruments no scan targets, by class
    scan,        \* the verify_predictions calls in progress, one per caller
    ret,         \* the call completed by the last step and the value it returned
    MODELS_DIR,  \* the model directory: what each saved version has on disk
    active_model,    \* ModelManager.active_model: the version it was loaded from
    active_scaler,   \* ModelManager.active_scaler: the version it was loaded from
    loading,         \* the load_model call in progress
    loaded,          \* the versions logged as 'loaded successfully'
    model_versions,  \* the rows written by repository.create_model_version
    history,         \* the entries of MODELS_DIR/retraining_history.json
    recording,       \* the _store_retraining_record calls in progress, one per caller
    connector,       \* MT5Connector: connected, last_error, connection_time
    terminal,        \* the MetaTrader5 module's terminal session: "up" or "down"
    stats,           \* MT5DataFetcher.stats
    session_state,   \* st.session_state: the wizard's flags
    first_run_config \* MODELS_DIR/first_run_config.json

slots == <<active_model, active_scaler, loading, loaded>>

journal == <<history, recording>>

devices == <<connector, terminal, stats, session_state, first_run_config>>

vars == <<now, repository, preds, bulk, scan, ret, MODELS_DIR, slots, model_versions, journal, devices>>

-----------------------------------------------------------------------------
(* Bounds of the model *)

MaxPreds == 2

Scanners == {1, 2}

Sentiments == {"BULLISH", "BEARISH", "NEUTRAL"}

Timeframes == {"M1", "M5", "M15", "M30", "H1", "H4", "D1", "W1", "MN1"}

NoSymbol == "None"

-----------------------------------------------------------------------------
(* Exact fractions *)

Frac(n, d) == [num |-> n, den |-> d]

\* a < b for fractions with non-zero denominators of either sign
FracLess(a, b) ==
    IF (a.den > 0) = (b.den > 0)
    THEN a.num * b.den < b.num * a.den
    ELSE a.num * b.den > b.num * a.den

FracNeg(a) == Frac(0 - a.num, a.den)

-----------------------------------------------------------------------------
(* PredictionTracker: pure helpers *)

\* _get_verification_window: hours to wait, here in quarter hours
get_verification_window_bad(timeframe) ==
    CASE timeframe = "M1"  -> 1
      [] timeframe = "M5"  -> 2
      [] timeframe = "M15" -> 4
      [] timeframe = "M30" -> 8
      [] timeframe = "H1"  -> 16
      [] timeframe = "H4"  -> 48
      [] timeframe = "D1"  -> 96
      [] timeframe = "W1"  -> 672
      [] OTHER             -> 4

get_verification_window(timeframe) ==
    CASE timeframe = "M1"  -> 1
      [] timeframe = "M5"  -> 2
      [] timeframe = "M15" -> 4
      [] timeframe = "M30" -> 8
      [] timeframe = "H1"  -> 16
      [] timeframe = "H4"  -> 48
      [] timeframe = "D1"  -> 96
      [] timeframe = "W1"  -> 672
      [] OTHER             -> 16

\* line 122: prediction_age.total_seconds() / 3600 < verification_hours
not_old_enough_bad(prediction_age, verification_hours) ==
    prediction_age + 1 < verification_hours

not_old_enough(prediction_age, verification_hours) ==
    prediction_age < verification_hours

\* lines 126-127: (current_price - price_at_prediction) / price_at_prediction * 100
\* (a zero price_at_prediction raises ZeroDivisionError: callers test it first)
price_change_pct(current_price, price_at_prediction) ==
    Frac((current_price - price_at_prediction) * 100, price_at_prediction)

\* line 371: threshold = 0.05
threshold == Frac(5, 100)

determine_outcome_bad(pct) ==
    IF ~FracLess(pct, threshold) THEN "BULLISH"
    ELSE IF FracLess(pct, FracNeg(threshold)) THEN "BEARISH"
    ELSE "NEUTRAL"

\* _determine_outcome
determine_outcome(pct) ==
    IF FracLess(threshold, pct) THEN "BULLISH"
    ELSE IF FracLess(pct, FracNeg(threshold)) THEN "BEARISH"
    ELSE "NEUTRAL"

\* line 131: was_correct = (actual_outcome == pred.sentiment)
was_correct_bad(actual_outcome, sentiment) == actual_outcome = "BULLISH"

was_correct_of(actual_outcome, sentiment) == actual_outcome = sentiment

-----------------------------------------------------------------------------
(* The persistence provider (src/database/repository.py is not among the   *)
(* sources: modelled from the interface the specification gives).          *)

NoValue == "None"

\* a verified_at that is None: no instant
NoTime == 0 - 1

\* create_prediction: a new unverified row, stamped with the creation time
NewPrediction(symbol, timeframe, sentiment, price_at_prediction) ==
    [symbol |-> symbol, timeframe |-> timeframe, sentiment |-> sentiment,
     price_at_prediction |-> price_at_prediction, timestamp |-> now,
     is_verified |-> FALSE, verified_at |-> NoTime,
     actual_outcome |-> NoValue, was_correct |-> NoValue,
     price_at_verification |-> NoValue]

Take(s, n) == IF Len(s) <= n THEN s ELSE SubSeq(s, 1, n)

RECURSIVE IdsFrom(_, _, _)
IdsFrom(i, symbol, is_verified) ==
    IF i > Len(preds) THEN <<>>
    ELSE IF /\ (symbol = NoSymbol \/ preds[i].symbol = symbol)
            /\ preds[i].is_verified = is_verified
         THEN <<i>> \o IdsFrom(i + 1, symbol, is_verified)
         ELSE IdsFrom(i + 1, symbol, is_verified)

\* get_predictions(symbol_name, is_verified, limit): the ids of the matching rows
get_predictions(symbol, is_verified, limit) ==
    Take(IdsFrom(1, symbol, is_verified), limit)

\* verify_prediction(prediction_id, actual_outcome, was_correct,
\* price_at_verification): the row is written, whatever it held
verify_prediction(id, actual_outcome, was_correct, price_at_verification) ==
    [preds EXCEPT ![id] = [@ EXCEPT !.is_verified = TRUE,
                                    !.verified_at = now,
                                    !.actual_outcome = actual_outcome,
                                    !.was_correct = was_correct,
                                    !.price_at_verification = price_at_verification]]

-----------------------------------------------------------------------------
(* Initial state: a tracker just constructed, an empty prediction table *)

Idle == [pc |-> "idle", symbol |-> NoSymbol, current_price |-> 0,
         lookback_hours |-> 0, predictions |-> <<>>, idx |-> 0,
         verified_count |-> 0, result |-> NoValue]

NoBulk == [unverified |-> 0, correct |-> 0, incorrect |-> 0, stale |-> 0]

\* None in a place that holds a version
NoVersion == [prefix |-> "None", timestamp |-> 0 - 1]

Recorders == {1, 2}

NoLoad == [pc |-> "idle", version |-> NoVersion]

\* retraining_history.json: absent or an empty list
NoHistory == [entries |-> <<>>, cut |-> FALSE]

NoRecord == [pc |-> "idle", history |-> <<>>]

\* MT5Connector.__init__ (mt5_connector.py, lines 28-30)
Disconnected == [connected |-> FALSE, last_error |-> NoValue,
                 connection_time |-> NoTime]

\* MT5DataFetcher.__init__ (data_fetcher.py, lines 99-105)
NoStats == [total_requests |-> 0, successful_requests |-> 0,
            failed_requests |-> 0, total_bars_fetched |-> 0,
            total_ticks_fetched |-> 0]

\* a session in which no flag of the wizard has been set
NoSession == [wizard_skipped |-> FALSE, wizard_completed |-> FALSE,
              wizard_start_training |-> FALSE]

\* ModelManager.__init__ (lines 43-44): nothing loaded; nothing registered and
\* no retraining recorded yet; the connector, the fetcher and the session as
\* constructed, the terminal not started, no first-run record
Constructed ==
    /\ active_model = NoVersion
    /\ active_scaler = NoVersion
    /\ loading = NoLoad
    /\ loaded = {}
    /\ model_versions = <<>>
    /\ history = NoHistory
    /\ recording = [w \in Recorders |-> NoRecord]
    /\ connector = Disconnected
    /\ terminal = "down"
    /\ stats = NoStats
    /\ session_state = NoSession
    /\ first_run_config = "absent"

\* no call was completed by the last step
NoRet == [op |-> "none", value |-> NoValue]

Init ==
    /\ now = 0
    /\ repository \in BOOLEAN
    /\ preds = <<>>
    /\ bulk = NoBulk
    /\ scan = [s \in Scanners |-> Idle]
    /\ ret = NoRet
    /\ MODELS_DIR = {}
    /\ Constructed

-----------------------------------------------------------------------------
(* The clock: time passes between calls, to one of the given instants *)

Tick(instants) ==
    /\ \E t \in instants : t > now /\ now' = t
    /\ ret' = NoRet
    /\ UNCHANGED <<repository, preds, bulk, scan, MODELS_DIR, slots, model_versions, journal, devices>>

-----------------------------------------------------------------------------
(* PredictionTracker.store_prediction (lines 57-80).  confidence and        *)
(* model_version are stored and never read again; they are left out.        *)

store_prediction(symbol, timeframe, sentiment, price_at_prediction, fails) ==
    /\ IF ~repository \/ fails
       THEN /\ ret' = [op |-> "store_prediction", value |-> 0 - 1,
                        raised |-> repository]
            /\ UNCHANGED preds
       ELSE /\ preds' = Append(preds, NewPrediction(symbol, timeframe, sentiment,
                                                    price_at_prediction))
            /\ ret' = [op |-> "store_prediction", value |-> Len(preds) + 1,
                        raised |-> FALSE]
    /\ UNCHANGED <<now, repository, bulk, scan, MODELS_DIR, slots, model_versions, journal, devices>>

-----------------------------------------------------------------------------
(* PredictionTracker.verify_predictions (lines 99-159), one caller s.       *)
(* The read of the unverified rows and each row's write are separate        *)
(* repository calls: other callers may run between them.                    *)

\* what a verify_predictions call of caller s returned: the value, whether an
\* exception was caught (lines 157-159), and the rows the call had read
returned(s, value, raised, predictions) ==
    [op |-> "verify_predictions", scanner |-> s, value |-> value,
     raised |-> raised, predictions |-> predictions]

\* lines 99-113: no repository, or get_predictions raises: return 0;
\* otherwise the unverified rows of the symbol are read (limit=100)
verify_predictions_begin(s, symbol, current_price, lookback_hours, fails) ==
    /\ scan[s].pc = "idle"
    /\ IF ~repository \/ fails
       THEN /\ scan' = [scan EXCEPT ![s] = [Idle EXCEPT !.result = 0]]
            /\ ret' = returned(s, 0, repository, <<>>)
       ELSE /\ scan' = [scan EXCEPT ![s] =
                [pc |-> "loop", symbol |-> symbol, current_price |-> current_price,
                 lookback_hours |-> lookback_hours,
                 predictions |-> get_predictions(symbol, FALSE, 100),
                 idx |-> 1, verified_count |-> 0, result |-> NoValue]]
            /\ ret' = NoRet
    /\ UNCHANGED <<now, repository, preds, bulk, MODELS_DIR, slots, model_versions, journal, devices>>

\* lines 115-147: one iteration of the loop, for the row scan[s].predictions[idx]
verify_predictions_step(s, fails) ==
    /\ scan[s].pc = "loop"
    /\ scan[s].idx <= Len(scan[s].predictions)
    /\ LET id == scan[s].predictions[scan[s].idx]
           pred == preds[id]
           prediction_age == now - pred.timestamp
           verification_hours == get_verification_window(pred.timeframe)
       IN IF not_old_enough(prediction_age, verification_hours)
          THEN \* continue
               /\ scan' = [scan EXCEPT ![s].idx = @ + 1]
               /\ ret' = NoRet
               /\ UNCHANGED preds
          ELSE IF pred.price_at_prediction = 0 \/ fails
          THEN \* ZeroDivisionError, or verify_prediction raises: return 0
               /\ scan' = [scan EXCEPT ![s] = [Idle EXCEPT !.result = 0]]
               /\ ret' = returned(s, 0, TRUE, scan[s].predictions)
               /\ UNCHANGED preds
          ELSE LET actual_outcome ==
                       determine_outcome(price_change_pct(scan[s].current_price,
                                                          pred.price_at_prediction))
                   was_correct == was_correct_of(actual_outcome, pred.sentiment)
               IN /\ preds' = verify_prediction(id, actual_outcome, was_correct,
                                                scan[s].current_price)
                  /\ scan' = [scan EXCEPT ![s].idx = @ + 1,
                                          ![s].verified_count = @ + 1]
                  /\ ret' = NoRet
    /\ UNCHANGED <<now, repository, bulk, MODELS_DIR, slots, model_versions, journal, devices>>

\* lines 149-155: return verified_count
verify_predictions_return(s) ==
    /\ scan[s].pc = "loop"
    /\ scan[s].idx > Len(scan[s].predictions)
    /\ scan' = [scan EXCEPT ![s] = [Idle EXCEPT !.result = scan[s].verified_count]]
    /\ ret' = returned(s, scan[s].verified_count, FALSE, scan[s].predictions)
    /\ UNCHANGED <<now, repository, preds, bulk, MODELS_DIR, slots, model_versions, journal, devices>>

-----------------------------------------------------------------------------
(* Concurrent scans of one instrument: two callers of verify_predictions,  *)
(* predictions on M5 (window 0.5 h) stored and scanned at any instant.      *)

Instants == {0, 1, 2, 3}

ScanPrices == {10000, 10006}

Next ==
    \/ Tick(Instants)
    \/ \E sent \in {"BULLISH", "NEUTRAL"}, f \in BOOLEAN :
          /\ Len(preds) < MaxPreds
          /\ store_prediction("EURUSD", "M5", sent, 10000, f)
    \/ \E s \in Scanners, cp \in ScanPrices, f \in BOOLEAN :
          verify_predictions_begin(s, "EURUSD", cp, 24, f)
    \/ \E s \in Scanners, f \in BOOLEAN : verify_predictions_step(s, f)
    \/ \E s \in Scanners : verify_predictions_return(s)

Spec == Init /\ [][Next]_vars

\* the windows of the claim, in quarter hours
ClaimWindow(timeframe) ==
    CASE timeframe = "M1"  -> 1
      [] timeframe = "M5"  -> 2
      [] timeframe = "M15" -> 1 * 4
      [] timeframe = "M30" -> 2 * 4
      [] timeframe = "H1"  -> 4 * 4
      [] timeframe = "H4"  -> 12 * 4
      [] timeframe = "D1"  -> 24 * 4
      [] timeframe = "W1"  -> 168 * 4
      [] OTHER             -> 4 * 4

\* the row the caller s is about to process
CurrentId(s) == scan[s].predictions[scan[s].idx]

Processing(s) == scan[s].pc = "loop" /\ scan[s].idx <= Len(scan[s].predictions)

\* C1: a verified prediction is never written again: its verified_at,
\* actual_outcome, was_correct and price_at_verification stay as first set
C1_AtMostOnce ==
    [][\A i \in DOMAIN preds :
          preds[i].is_verified =>
              /\ preds'[i].is_verified
              /\ preds'[i].verified_at = preds[i].verified_at
              /\ preds'[i].actual_outcome = preds[i].actual_outcome
              /\ preds'[i].was_correct = preds[i].was_correct
              /\ preds'[i].price_at_verification = preds[i].price_at_verification]_vars

\* C3: a loop iteration over a prediction younger than its window changes no
\* row and does not count the prediction as verified
C3_SkipMutatesNothing ==
    [][\A s \in Scanners :
          (/\ Processing(s)
           /\ scan'[s] # scan[s]
           /\ now < preds[CurrentId(s)].timestamp
                       + ClaimWindow(preds[CurrentId(s)].timeframe))
          => /\ preds' = preds
             /\ scan'[s].verified_count = scan[s].verified_count
             /\ scan'[s].pc = "loop"]_vars

\* caller 1 has passed over prediction 1, too young, and left it as it was
C3_Witness ==
    /\ scan[1].pc = "loop" /\ scan[1].predictions = <<1>> /\ scan[1].idx = 2
    /\ scan[1].verified_count = 0
    /\ now < preds[1].timestamp + 2
    /\ ~preds[1].is_verified /\ preds[1].verified_at = NoTime
    /\ preds[1].actual_outcome = NoValue /\ preds[1].was_correct = NoValue
    /\ preds[1].price_at_verification = NoValue

\* C5: every verified prediction has was_correct = (actual_outcome = sentiment),
\* and a step that writes a verification stores the current_price of the call
\* that took the step
C5_VerifiedFields ==
    [][/\ \A i \in DOMAIN preds' :
             preds'[i].is_verified =>
                 preds'[i].was_correct =
                     (preds'[i].actual_outcome = preds'[i].sentiment)
       /\ \A i \in DOMAIN preds :
             (preds'[i] # preds[i] /\ preds'[i].is_verified) =>
                 \E s \in Scanners :
                     /\ Processing(s) /\ CurrentId(s) = i
                     /\ scan'[s].verified_count = scan[s].verified_count + 1
                     /\ preds'[i].price_at_verification = scan[s].current_price]_vars

\* a NEUTRAL prediction verified at 1.0006 (BULLISH, so incorrect) beside a
\* BULLISH one verified at 1.0000 (NEUTRAL, so incorrect) or at 1.0006 (correct)
C5_Witness ==
    /\ \E i \in DOMAIN preds :
          /\ preds[i].is_verified /\ preds[i].sentiment = "NEUTRAL"
          /\ preds[i].price_at_verification = 10006 /\ preds[i].was_correct = FALSE
    /\ \E i \in DOMAIN preds :
          /\ preds[i].is_verified /\ preds[i].sentiment = "BULLISH"
          /\ preds[i].price_at_verification = 10006 /\ preds[i].was_correct = TRUE

-----------------------------------------------------------------------------
(* Gating: one caller, every timeframe, a clock that reaches each window.   *)

GatingPreds == 1

GatingStoreTimes == {0, 1}

\* the instants just before and at the end of every window
GatingInstants ==
    GatingStoreTimes \cup
    UNION {{t + ClaimWindow(tf) - 1, t + ClaimWindow(tf)} :
           t \in GatingStoreTimes, tf \in Timeframes}

NextGating ==
    \/ Tick(GatingInstants)
    \/ \E tf \in Timeframes :
          /\ Len(preds) < GatingPreds
          /\ now \in GatingStoreTimes
          /\ store_prediction("EURUSD", tf, "BULLISH", 10000, FALSE)
    \/ verify_predictions_begin(1, "EURUSD", 10006, 24, FALSE)
    \/ verify_predictions_step(1, FALSE)
    \/ verify_predictions_return(1)

SpecGating == Init /\ [][NextGating]_vars

\* C2: a step that writes a prediction's verification is taken no earlier than
\* the prediction's creation time plus the window of its timeframe
C2_VerificationGating ==
    [][\A i \in DOMAIN preds :
          (preds'[i] # preds[i] /\ preds'[i].is_verified)
          => now >= preds[i].timestamp + ClaimWindow(preds[i].timeframe)]_vars

\* a prediction of a timeframe outside the table, created at 1, is verified
\* by the scan run exactly when its 4 h have passed
C2_Witness ==
    \E i \in DOMAIN preds :
        /\ preds[i].timeframe = "MN1" /\ preds[i].timestamp = 1
        /\ preds[i].is_verified /\ preds[i].verified_at = 1 + 16

-----------------------------------------------------------------------------
(* Outcomes: one caller, M1 predictions, prices on both sides of and at    *)
(* the 0.05 % threshold, and a stored price of 0.                           *)

OutcomeStorePrices == {0, 10000, 10850}

OutcomeScanPrices == {9994, 9995, 10005, 10006, 10856}

NextOutcome ==
    \/ Tick({0, 1})
    \/ \E sent \in Sentiments, p \in OutcomeStorePrices :
          /\ Len(preds) < MaxPreds
          /\ store_prediction("EURUSD", "M1", sent, p, FALSE)
    \/ \E cp \in OutcomeScanPrices :
          verify_predictions_begin(1, "EURUSD", cp, 24, FALSE)
    \/ verify_predictions_step(1, FALSE)
    \/ verify_predictions_return(1)

SpecOutcome == Init /\ [][NextOutcome]_vars

\* the claim's classes, for a positive price p at prediction and a price cur at
\* verification: (cur - p) / p * 100 > 0.05 is 2000 * (cur - p) > p
ClaimBullish(cur, p) == 2000 * (cur - p) > p

ClaimBearish(cur, p) == 2000 * (cur - p) < 0 - p

\* C4: a verified prediction's outcome is BULLISH iff the percentage change is
\* above 0.05, BEARISH iff it is below -0.05, NEUTRAL otherwise
C4_OutcomeClassification ==
    \A i \in DOMAIN preds :
        preds[i].is_verified =>
            LET cur == preds[i].price_at_verification
                p == preds[i].price_at_prediction
            IN /\ p > 0
               /\ (preds[i].actual_outcome = "BULLISH") = ClaimBullish(cur, p)
               /\ (preds[i].actual_outcome = "BEARISH") = ClaimBearish(cur, p)
               /\ (preds[i].actual_outcome = "NEUTRAL") =
                      (~ClaimBullish(cur, p) /\ ~ClaimBearish(cur, p))

\* Scenario B (1.0850 -> 1.0856 is BULLISH) beside a change of exactly +0.05 %
C4_Witness ==
    /\ \E i \in DOMAIN preds :
          /\ preds[i].is_verified
          /\ preds[i].price_at_prediction = 10850
          /\ preds[i].price_at_verification = 10856
          /\ preds[i].actual_outcome = "BULLISH"
    /\ \E i \in DOMAIN preds :
          /\ preds[i].is_verified
          /\ preds[i].price_at_prediction = 10000
          /\ preds[i].price_at_verification = 10005
          /\ preds[i].actual_outcome = "NEUTRAL"

-----------------------------------------------------------------------------
(* PredictionTracker statistics: get_recent_accuracy, needs_retraining,    *)
(* _get_unverified_count.  The rows counted by bulk belong to an instrument *)
(* of their own; the verified ones among them were verified at instant 0.   *)
(* Reasons are kept by kind; by_sentiment, which no caller reads, is left   *)
(* out of the result.                                                       *)

BulkSymbol == "OTHER"

Range(seq) == {seq[i] : i \in DOMAIN seq}

\* line 181: since = datetime.now() - timedelta(days=days)
since_of(days) == now - days * 96

\* lines 183-190, the rows of preds: verified rows with verified_at >= since
recent_preds(symbol, days) ==
    {i \in Range(get_predictions(symbol, TRUE, 1000)) :
        preds[i].verified_at # NoTime /\ preds[i].verified_at >= since_of(days)}

\* lines 183-190, the rows of bulk; they are fewer than the limits of the reads
\* (1000 verified rows, 10000 unverified ones), which return them all
bulk_recent(symbol, days) ==
    symbol \in {NoSymbol, BulkSymbol} /\ 0 >= since_of(days)

\* lines 177 and 230: the result without a repository and after an exception
accuracy_fallback == [total |-> 0, correct |-> 0, accuracy |-> Frac(0, 1)]

\* lines 192-226
accuracy_stats_of(total, correct, days) ==
    IF total = 0
    THEN [total |-> 0, correct |-> 0, incorrect |-> 0, accuracy |-> Frac(0, 1)]
    ELSE [total |-> total, correct |-> correct, incorrect |-> total - correct,
          accuracy |-> Frac(correct, total), period_days |-> days]

\* get_recent_accuracy as it would be if an exception of get_predictions
\* left the statistics of the rows read so far in the result
recent_accuracy_unguarded(symbol, days, fails) ==
    IF ~repository THEN accuracy_fallback
    ELSE LET rows == recent_preds(symbol, days)
             more == bulk_recent(symbol, days)
             total == Cardinality(rows)
                        + (IF more THEN bulk.correct + bulk.incorrect ELSE 0)
             correct == Cardinality({i \in rows : preds[i].was_correct = TRUE})
                        + (IF more THEN bulk.correct ELSE 0)
         IN accuracy_stats_of(total, correct, days)

\* get_recent_accuracy(symbol, days); fails: get_predictions raises
recent_accuracy(symbol, days, fails) ==
    IF ~repository \/ fails THEN accuracy_fallback
    ELSE LET rows == recent_preds(symbol, days)
             more == bulk_recent(symbol, days)
             total == Cardinality(rows)
                        + (IF more THEN bulk.correct + bulk.incorrect ELSE 0)
             correct == Cardinality({i \in rows : preds[i].was_correct = TRUE})
                        + (IF more THEN bulk.correct ELSE 0)
         IN accuracy_stats_of(total, correct, days)

\* _get_unverified_count (lines 380-392); fails: get_predictions raises
get_unverified_count(fails) ==
    IF ~repository \/ fails THEN 0
    ELSE Len(get_predictions(NoSymbol, FALSE, 10000)) + bulk.unverified

\* line 268: if unverified_count > 200
DriftThreshold == 200

\* lines 251-278 with the accuracy check made whether or not there are enough
\* predictions
retraining_recommendation_if(accuracy_stats, unverified_count, min_accuracy, min_predictions) ==
    LET few == accuracy_stats.total < min_predictions
        low == FracLess(accuracy_stats.accuracy, min_accuracy)
        drift == unverified_count > DriftThreshold
    IN [needs_retraining |-> low \/ drift,
        reasons |-> (IF few THEN <<"not_enough">> ELSE <<>>)
                    \o (IF low THEN <<"accuracy">> ELSE <<>>)
                    \o (IF drift THEN <<"new_predictions">> ELSE <<>>),
        current_accuracy |-> accuracy_stats.accuracy,
        total_predictions |-> accuracy_stats.total,
        unverified_predictions |-> unverified_count]

\* lines 251-278 with the drift check assigning needs_retrain either way
retraining_recommendation_overwrite(accuracy_stats, unverified_count, min_accuracy, min_predictions) ==
    LET few == accuracy_stats.total < min_predictions
        low == ~few /\ FracLess(accuracy_stats.accuracy, min_accuracy)
        drift == unverified_count > DriftThreshold
    IN [needs_retraining |-> drift,
        reasons |-> (IF few THEN <<"not_enough">> ELSE <<>>)
                    \o (IF low THEN <<"accuracy">> ELSE <<>>)
                    \o (IF drift THEN <<"new_predictions">> ELSE <<>>),
        current_accuracy |-> accuracy_stats.accuracy,
        total_predictions |-> accuracy_stats.total,
        unverified_predictions |-> unverified_count]

\* lines 251-278 with the drift check as a third branch of the if/elif chain
retraining_recommendation_elif(accuracy_stats, unverified_count, min_accuracy, min_predictions) ==
    LET few == accuracy_stats.total < min_predictions
        low == ~few /\ FracLess(accuracy_stats.accuracy, min_accuracy)
        drift == ~few /\ ~low /\ unverified_count > DriftThreshold
    IN [needs_retraining |-> low \/ drift,
        reasons |-> (IF few THEN <<"not_enough">> ELSE <<>>)
                    \o (IF low THEN <<"accuracy">> ELSE <<>>)
                    \o (IF drift THEN <<"new_predictions">> ELSE <<>>),
        current_accuracy |-> accuracy_stats.accuracy,
        total_predictions |-> accuracy_stats.total,
        unverified_predictions |-> unverified_count]

\* lines 251-278: the recommendation from the statistics and the unverified count
retraining_recommendation(accuracy_stats, unverified_count, min_accuracy, min_predictions) ==
    LET few == accuracy_stats.total < min_predictions
        low == ~few /\ FracLess(accuracy_stats.accuracy, min_accuracy)
        drift == unverified_count > DriftThreshold
    IN [needs_retraining |-> low \/ drift,
        reasons |-> (IF few THEN <<"not_enough">> ELSE <<>>)
                    \o (IF low THEN <<"accuracy">> ELSE <<>>)
                    \o (IF drift THEN <<"new_predictions">> ELSE <<>>),
        current_accuracy |-> accuracy_stats.accuracy,
        total_predictions |-> accuracy_stats.total,
        unverified_predictions |-> unverified_count]

\* needs_retraining(min_accuracy, min_predictions, check_days) as a value;
\* fails_stats, fails_count: the one or the other get_predictions call raises
needs_retraining_of(min_accuracy, min_predictions, check_days, fails_stats, fails_count) ==
    retraining_recommendation(recent_accuracy(NoSymbol, check_days, fails_stats),
                              get_unverified_count(fails_count),
                              min_accuracy, min_predictions)

\* the call PredictionTracker.get_recent_accuracy
get_recent_accuracy(symbol, days, fails) ==
    /\ ret' = [op |-> "get_recent_accuracy",
               args |-> [symbol |-> symbol, days |-> days],
               raised |-> [stats |-> fails],
               value |-> recent_accuracy(symbol, days, fails)]
    /\ UNCHANGED <<now, repository, preds, bulk, scan, MODELS_DIR, slots, model_versions, journal, devices>>

\* the call PredictionTracker.needs_retraining
needs_retraining(min_accuracy, min_predictions, check_days, fails_stats, fails_count) ==
    /\ ret' = [op |-> "needs_retraining",
               args |-> [min_accuracy |-> min_accuracy,
                         min_predictions |-> min_predictions,
                         check_days |-> check_days],
               raised |-> [stats |-> fails_stats, count |-> fails_count],
               value |-> needs_retraining_of(min_accuracy, min_predictions,
                                             check_days, fails_stats, fails_count)]
    /\ UNCHANGED <<now, repository, preds, bulk, scan, MODELS_DIR, slots, model_versions, journal, devices>>

-----------------------------------------------------------------------------
(* Retraining recommendations: a prediction table that already holds rows   *)
(* (bulk), to which predictions are added and in which they are verified.   *)

BulkStates ==
    {[unverified |-> u, correct |-> cw[1], incorrect |-> cw[2], stale |-> cw[3]] :
        u \in {0, 200},
        cw \in {<<0, 0, 0>>, <<40, 10, 0>>, <<60, 40, 0>>, <<69, 30, 7>>, <<70, 30, 7>>}}

InitRetrain ==
    /\ now = 0
    /\ repository \in BOOLEAN
    /\ preds = <<>>
    /\ bulk \in BulkStates
    /\ scan = [s \in Scanners |-> Idle]
    /\ ret = NoRet
    /\ MODELS_DIR = {}
    /\ Constructed

RetrainPreds == 1

RetrainInstants == {0, 1, 97, 673}

MinAccuracies == {Frac(70, 100)}

MinPredictions == {100}

CheckDays == {1, 7}

NextRetrain ==
    \/ Tick(RetrainInstants)
    \/ /\ Len(preds) < RetrainPreds
       /\ store_prediction("EURUSD", "M1", "BULLISH", 10000, FALSE)
    \/ \E cp \in ScanPrices : verify_predictions_begin(1, "EURUSD", cp, 24, FALSE)
    \/ verify_predictions_step(1, FALSE)
    \/ verify_predictions_return(1)
    \/ \E sym \in {NoSymbol, "EURUSD"}, d \in CheckDays, f \in BOOLEAN :
          get_recent_accuracy(sym, d, f)
    \/ \E ma \in MinAccuracies, mp \in MinPredictions, d \in CheckDays,
          f1 \in BOOLEAN, f2 \in BOOLEAN :
          needs_retraining(ma, mp, d, f1, f2)

SpecRetrain == InitRetrain /\ [][NextRetrain]_vars

\* what the prediction table holds, counted from the rows themselves
WindowOpen(days) == now - days * 96 <= 0

VerifiedInWindow(days) ==
    Cardinality({i \in DOMAIN preds :
                    preds[i].is_verified /\ preds[i].verified_at + days * 96 >= now})
    + (IF WindowOpen(days) THEN bulk.correct + bulk.incorrect ELSE 0)

CorrectInWindow(days) ==
    Cardinality({i \in DOMAIN preds :
                    /\ preds[i].is_verified /\ preds[i].verified_at + days * 96 >= now
                    /\ preds[i].actual_outcome = preds[i].sentiment})
    + (IF WindowOpen(days) THEN bulk.correct ELSE 0)

Unverified == Cardinality({i \in DOMAIN preds : ~preds[i].is_verified}) + bulk.unverified

\* C6: every result of get_recent_accuracy has 0 <= accuracy <= 1 and carries
\* total, correct and incorrect with correct + incorrect = total
C6_AccuracyBound ==
    ret.op = "get_recent_accuracy" =>
        /\ {"total", "correct", "incorrect", "accuracy"} \subseteq DOMAIN ret.value
        /\ ret.value.correct + ret.value.incorrect = ret.value.total
        /\ ret.value.accuracy.den > 0
        /\ 0 <= ret.value.accuracy.num
        /\ ret.value.accuracy.num <= ret.value.accuracy.den

\* the needs_retraining call just completed: its arguments and its result
Recommended == ret.op = "needs_retraining"

BelowMinAccuracy(accuracy, min_accuracy) ==
    accuracy.num * min_accuracy.den < min_accuracy.num * accuracy.den

\* C7 as stated: with fewer verified predictions in the window than
\* min_predictions, needs_retraining is false and the reason 'not enough' given
C7_Original ==
    (Recommended /\ VerifiedInWindow(ret.args.check_days) < ret.args.min_predictions)
    => /\ ret.value.needs_retraining = FALSE
       /\ "not_enough" \in Range(ret.value.reasons)

\* C7 amended: with fewer verified predictions in the window than
\* min_predictions, the reason 'not enough' is given and no accuracy reason, and
\* needs_retraining is false unless the unverified count read (the table's own
\* count, if the read succeeds) exceeds 200
C7_InsufficientEvidence ==
    (Recommended /\ VerifiedInWindow(ret.args.check_days) < ret.args.min_predictions)
    => /\ ret.value.total_predictions < ret.args.min_predictions
       /\ "not_enough" \in Range(ret.value.reasons)
       /\ "accuracy" \notin Range(ret.value.reasons)
       /\ ret.value.needs_retraining = (ret.value.unverified_predictions > 200)
       /\ (repository /\ ~ret.raised.count)
             => ret.value.unverified_predictions = Unverified

\* Scenario C: 50 verified, 40 correct, 0.70, 100: false, 'not enough'
C7_Witness ==
    /\ ret.op = "needs_retraining"
    /\ ret.args.min_predictions = 100 /\ ret.args.min_accuracy = Frac(70, 100)
    /\ ret.value.total_predictions = 50
    /\ ret.value.current_accuracy = Frac(40, 50)
    /\ ret.value.needs_retraining = FALSE
    /\ ret.value.reasons = <<"not_enough">>

\* C8: when the statistics read (the table's own counts, if the read succeeds)
\* have total >= min_predictions and accuracy < min_accuracy, needs_retraining
\* is true and the accuracy reason is given, whatever the unverified count
C8_AccuracyTrigger ==
    Recommended =>
        LET v == ret.value
            total == VerifiedInWindow(ret.args.check_days)
        IN /\ (repository /\ ~ret.raised.stats) =>
                 /\ v.total_predictions = total
                 /\ v.current_accuracy =
                       (IF total = 0 THEN Frac(0, 1)
                        ELSE Frac(CorrectInWindow(ret.args.check_days), total))
           /\ (/\ v.total_predictions >= ret.args.min_predictions
               /\ BelowMinAccuracy(v.current_accuracy, ret.args.min_accuracy))
              => /\ v.needs_retraining = TRUE
                 /\ "accuracy" \in Range(v.reasons)

\* 100 verified, 69 correct, no drift: true for the accuracy alone
C8_Witness ==
    /\ ret.op = "needs_retraining"
    /\ ret.args.min_predictions = 100 /\ ret.args.min_accuracy = Frac(70, 100)
    /\ ret.value.total_predictions = 100
    /\ ret.value.current_accuracy = Frac(69, 100)
    /\ ret.value.unverified_predictions = 0
    /\ ret.value.needs_retraining = TRUE
    /\ ret.value.reasons = <<"accuracy">>

\* C9: when the unverified count read (the table's own count, if the read
\* succeeds) exceeds 200, needs_retraining is true and the new-predictions
\* reason is given beside the 'not enough' or the accuracy reason of the call
C9_DriftTrigger ==
    Recommended =>
        LET v == ret.value
        IN /\ (repository /\ ~ret.raised.count)
                 => v.unverified_predictions = Unverified
           /\ v.unverified_predictions > 200
              => /\ v.needs_retraining = TRUE
                 /\ "new_predictions" \in Range(v.reasons)
                 /\ v.total_predictions < ret.args.min_predictions
                       => "not_enough" \in Range(v.reasons)
                 /\ (/\ v.total_predictions >= ret.args.min_predictions
                     /\ BelowMinAccuracy(v.current_accuracy, ret.args.min_accuracy))
                       => "accuracy" \in Range(v.reasons)

\* 201 unverified with too few verified ones: true, both reasons given
C9_Witness ==
    /\ ret.op = "needs_retraining"
    /\ ret.value.unverified_predictions = 201
    /\ ret.value.total_predictions = 50
    /\ ret.value.needs_retraining = TRUE
    /\ ret.value.reasons = <<"not_enough", "new_predictions">>

\* 200 unverified and one more stored, 100 verified at 60 %: true, both reasons
C9_WitnessAccuracy ==
    /\ ret.op = "needs_retraining"
    /\ ret.value.unverified_predictions = 201
    /\ ret.value.reasons = <<"accuracy", "new_predictions">>

-----------------------------------------------------------------------------
(* ModelManager: the versions saved in MODELS_DIR.  A version identifier is *)
(* a prefix and the timestamp it was generated at; an entry of MODELS_DIR   *)
(* says what the version has on disk: model_<v>.joblib and its modification *)
(* time, scaler_<v>.joblib, and metadata_<v>.json (absent, complete, or cut *)
(* short by a json.dump that raised) with the training_date it records.     *)

MaxModels == 2

\* _generate_version: 'v_<timestamp>'; the learner and the wizard pass
\* 'v2.0.0_auto_<timestamp>'
VersionPrefixes == {"v_", "v2.0.0_auto_"}

Version(prefix, timestamp) == [prefix |-> prefix, timestamp |-> timestamp]

\* str comparison of two identifiers: 'v_...' and 'v2...' differ at the second
\* character, '_' (95) above '2' (50); the timestamps are of fixed width
prefix_rank(prefix) == IF prefix = "v_" THEN 95 ELSE 50

version_less(a, b) ==
    \/ prefix_rank(a.prefix) < prefix_rank(b.prefix)
    \/ /\ prefix_rank(a.prefix) = prefix_rank(b.prefix)
       /\ a.timestamp < b.timestamp

RECURSIVE sorted_reverse(_)
sorted_reverse(versions) ==
    IF versions = {} THEN <<>>
    ELSE LET m == CHOOSE x \in versions :
                     \A y \in versions \ {x} : version_less(y, x)
         IN <<m>> \o sorted_reverse(versions \ {m})

\* list_models: the versions that have a model file, sorted(..., reverse=True)
list_models == sorted_reverse({e.version : e \in MODELS_DIR})

HasFiles(version) == \E e \in MODELS_DIR : e.version = version

NoFiles(version) ==
    [version |-> version, model |-> "absent", mtime |-> NoTime,
     scaler |-> "absent", metadata |-> "absent", training_date |-> NoTime]

FilesOf(version) ==
    IF HasFiles(version) THEN CHOOSE e \in MODELS_DIR : e.version = version
    ELSE NoFiles(version)

SaveFailures == {"none", "model", "scaler", "metadata"}

\* what a write that raises leaves of its file: the file as it was before
\* ("absent" for a new version), or a file cut short
Leavings == {"absent", "cut"}

\* save_model: the model file, the scaler file and the metadata file are
\* written in this order; fails names the write that raises, leaves what that
\* write leaves behind
saved(version, training_date, fails, leaves) ==
    LET old == FilesOf(version)
        new == CASE fails = "model" ->
                        IF leaves = "cut"
                        THEN [old EXCEPT !.model = "cut", !.mtime = now]
                        ELSE old
                 [] fails = "scaler" ->
                        [old EXCEPT !.model = "complete", !.mtime = now,
                                    !.scaler = IF leaves = "cut" THEN "cut" ELSE @]
                 [] fails = "metadata" ->
                        [old EXCEPT !.model = "complete", !.mtime = now,
                                    !.scaler = "complete",
                                    !.metadata = IF leaves = "cut" THEN "cut" ELSE @,
                                    !.training_date = IF leaves = "cut" THEN NoTime ELSE @]
                 [] OTHER ->
                        [old EXCEPT !.model = "complete", !.mtime = now,
                                    !.scaler = "complete",
                                    !.metadata = "complete",
                                    !.training_date = training_date]
    IN IF new.model = "absent" THEN MODELS_DIR
       ELSE {e \in MODELS_DIR : e.version # version} \cup {new}

\* save_model returns True, or False after an exception (lines 122-127)
save_model_returns(fails) == fails = "none"

\* _save_to_database (lines 166-189): without a repository, or when building
\* or writing the row raises, no row is written; is_active=True otherwise
registered(version, training_date, fails_database) ==
    IF ~repository \/ fails_database THEN model_versions
    ELSE Append(model_versions, [version |-> version,
                                 training_date |-> training_date,
                                 is_active |-> TRUE])

\* ModelManager.train_new_model(df, version); fails_training: preparing the
\* data or training raises, and so does the call; the value save_model returns
\* is not looked at
train_new_model(prefix, fails_training, fails_saving, leaves, fails_database) ==
    LET version == Version(prefix, now)
    IN /\ MODELS_DIR' = IF fails_training THEN MODELS_DIR
                        ELSE saved(version, now, fails_saving, leaves)
       /\ model_versions' = IF fails_training THEN model_versions
                            ELSE registered(version, now, fails_database)
       /\ ret' = [op |-> "train_new_model",
                  raised |-> fails_training,
                  value |-> IF fails_training THEN NoVersion ELSE version,
                  save_model |-> ~fails_training /\ save_model_returns(fails_saving),
                  create_model_version |->
                      ~fails_training /\ repository /\ ~fails_database]
       /\ UNCHANGED <<now, repository, preds, bulk, scan, slots, journal, devices>>

-----------------------------------------------------------------------------
(* ContinuousLearner: the retraining decision.                              *)

\* _get_last_training_time: the training_date of the metadata of models[0],
\* else the modification time of its model file; None (NoTime) without models
\* and when the metadata cannot be parsed
get_last_training_time ==
    LET models == list_models
    IN IF Len(models) = 0 THEN NoTime
       ELSE LET latest == FilesOf(models[1])
            IN CASE latest.metadata = "cut" -> NoTime
                 [] latest.metadata = "complete" /\ latest.training_date # NoTime ->
                        latest.training_date
                 [] OTHER -> latest.mtime

\* (datetime.now() - last_training_time).days if last_training_time else 999
days_since_training_of(last_training_time) ==
    IF last_training_time # NoTime THEN (now - last_training_time) \div 96 ELSE 999

\* if days_since_training >= 1
time_based_later(days_since_training) == days_since_training > 1

time_based(days_since_training) == days_since_training >= 1

\* should_retrain as a value; the tracker is asked with min_predictions=100,
\* check_days=7
should_retrain_of(min_confidence, fails_stats, fails_count) ==
    LET tracker_check == needs_retraining_of(min_confidence, 100, 7,
                                             fails_stats, fails_count)
        days_since_training == days_since_training_of(get_last_training_time)
        timed == time_based(days_since_training)
    IN [should_retrain |-> timed \/ tracker_check.needs_retraining,
        reasons |-> tracker_check.reasons
                    \o (IF timed THEN <<"last_training">> ELSE <<>>),
        current_accuracy |-> tracker_check.current_accuracy,
        days_since_training |-> days_since_training,
        new_predictions |-> tracker_check.unverified_predictions]

\* the call ContinuousLearner.should_retrain
should_retrain(min_confidence, fails_stats, fails_count) ==
    /\ ret' = [op |-> "should_retrain",
               args |-> [min_confidence |-> min_confidence],
               raised |-> [stats |-> fails_stats, count |-> fails_count],
               value |-> should_retrain_of(min_confidence, fails_stats, fails_count)]
    /\ UNCHANGED <<now, repository, preds, bulk, scan, MODELS_DIR, slots, model_versions, journal, devices>>

\* MLConfig.MIN_CONFIDENCE
MinConfidences == {Frac(60, 100), Frac(70, 100)}

LearnerBulks ==
    {b \in BulkStates : b.correct + b.incorrect \in {0, 100} /\ b.stale = 0}
    \cup {b \in BulkStates : b.correct = 69 /\ b.unverified = 0}

InitLearner ==
    /\ now = 0
    /\ repository \in BOOLEAN
    /\ preds = <<>>
    /\ bulk \in LearnerBulks
    /\ scan = [s \in Scanners |-> Idle]
    /\ ret = NoRet
    /\ MODELS_DIR = {}
    /\ Constructed

LearnerInstants == {0, 1, 96, 97, 192, 200}

NextLearner ==
    \/ Tick(LearnerInstants)
    \/ /\ Cardinality(MODELS_DIR) < MaxModels
       /\ \E prefix \in VersionPrefixes, f \in SaveFailures :
             train_new_model(prefix, FALSE, f,
                             IF f = "metadata" THEN "cut" ELSE "absent", TRUE)
    \/ /\ Cardinality(MODELS_DIR) < MaxModels
       /\ \E prefix \in VersionPrefixes :
             train_new_model(prefix, TRUE, "none", "cut", TRUE)
    \/ \E mc \in MinConfidences, f1 \in BOOLEAN, f2 \in BOOLEAN :
          should_retrain(mc, f1, f2)

SpecLearner == InitLearner /\ [][NextLearner]_vars

\* the should_retrain call just completed
Decided == ret.op = "should_retrain"

\* the saved version trained last: every train_new_model makes its version the
\* active one, and the model file is written as the training ends
NewestTrained ==
    CHOOSE e \in MODELS_DIR : \A o \in MODELS_DIR : o.mtime <= e.mtime

\* C10: whenever at least one full day (96 quarter hours) has passed since the
\* saved version trained last was trained, should_retrain returns
\* should_retrain = true with the time-based reason, whatever the tracker
\* recommends and whatever versions are saved; the days it reports are never
\* fewer than the full days since that training
C10_TimeBasedRetraining ==
    (Decided /\ MODELS_DIR # {}) =>
        /\ ret.value.days_since_training * 96 + 96 > now - NewestTrained.mtime
        /\ now - NewestTrained.mtime >= 96
              => /\ ret.value.should_retrain = TRUE
                 /\ "last_training" \in Range(ret.value.reasons)

\* Scenario D: the last training two days ago, versions of both kinds saved,
\* 100 verified predictions at the required accuracy and nothing unverified:
\* true for the time alone
C10_Witness ==
    /\ Decided
    /\ {e.version.prefix : e \in MODELS_DIR} = VersionPrefixes
    /\ now - NewestTrained.mtime = 192
    /\ ret.value.current_accuracy = ret.args.min_confidence
    /\ ret.value.should_retrain = TRUE
    /\ ret.value.reasons = <<"last_training">>

-----------------------------------------------------------------------------
(* ContinuousLearner: the retraining itself and its record.                 *)

\* _store_retraining_record, lines 270-282: the history read from the file,
\* with the new entry appended; a file cut short cannot be parsed
HistoryEntry(version, accuracy, trigger) ==
    [timestamp |-> now, version |-> version, accuracy |-> accuracy,
     trigger |-> trigger]

\* lines 284-286: the file is opened for writing and the list dumped into it;
\* fails: the write raises, leaves: what it leaves of the file
history_written(file, entries, fails, leaves) ==
    IF ~fails THEN [entries |-> entries, cut |-> FALSE]
    ELSE IF leaves = "cut" THEN [entries |-> <<>>, cut |-> TRUE]
    ELSE file

\* _store_retraining_record as one step: exceptions are logged, not raised
store_retraining_record_of(file, version, accuracy, trigger, fails, leaves) ==
    IF file.cut THEN file
    ELSE history_written(file,
             Append(file.entries, HistoryEntry(version, accuracy, trigger)),
             fails, leaves)

\* the outcomes of fetcher.get_ohlcv in execute_retraining: it raises, returns
\* None, an empty frame, or bars
Fetches == {"raises", "none", "empty", "bars"}

\* ModelManager.train_new_model(self, df, version=None), lines 46-50
train_new_model_parameters == {"df", "version"}

\* the keyword arguments of the call in execute_retraining, lines 109-116
retraining_arguments ==
    {"df", "version", "tune_hyperparameters", "select_features",
     "calibrate_probabilities", "n_features"}

\* a call with a keyword argument the function does not have raises TypeError
call_accepted(arguments, parameters) == arguments \subseteq parameters

\* lines 104 and 140: the result of a failure
failure_result_bare(error) == [success |-> FALSE]

failure_result(error) == [success |-> FALSE, error |-> error]

\* execute_retraining as a value: what it leaves in MODELS_DIR, in the
\* model_versions table and in the history file, what it returns, and the calls
\* it made.  cv_score and improvement of the result are left out.
execute_retraining_of(fetched, fails_training, fails_saving, leaves, fails_database, fails_record, test_accuracy) ==
    LET version == Version("v2.0.0_auto_", now)
        failed(error, calls) ==
            [dir |-> MODELS_DIR, rows |-> model_versions, file |-> history,
             value |-> failure_result(error), calls |-> calls]
    IN CASE fetched = "raises" -> failed("get_ohlcv raised", <<"get_ohlcv">>)
         [] fetched \in {"none", "empty"} ->
                failed("Data fetch failed", <<"get_ohlcv">>)
         [] ~call_accepted(retraining_arguments, train_new_model_parameters) ->
                failed("TypeError", <<"get_ohlcv", "train_new_model">>)
         [] fails_training ->
                failed("train_new_model raised", <<"get_ohlcv", "train_new_model">>)
         [] OTHER ->
                [dir |-> saved(version, now, fails_saving, leaves),
                 rows |-> registered(version, now, fails_database),
                 file |-> store_retraining_record_of(history, version,
                              test_accuracy, "automatic", fails_record, leaves),
                 value |-> [success |-> TRUE, version |-> version,
                            accuracy |-> test_accuracy],
                 calls |-> <<"get_ohlcv", "train_new_model",
                             "_store_retraining_record">>]

\* the call ContinuousLearner.execute_retraining
execute_retraining(fetched, fails_training, fails_saving, leaves, fails_database, fails_record, test_accuracy) ==
    LET done == execute_retraining_of(fetched, fails_training, fails_saving,
                    leaves, fails_database, fails_record, test_accuracy)
    IN /\ MODELS_DIR' = done.dir
       /\ model_versions' = done.rows
       /\ history' = done.file
       /\ ret' = [op |-> "execute_retraining",
                  args |-> [fetched |-> fetched, fails_training |-> fails_training],
                  raised |-> FALSE,
                  calls |-> done.calls,
                  value |-> done.value]
       /\ UNCHANGED <<now, repository, preds, bulk, scan, slots, recording,
                      devices>>

\* check_and_retrain, line 151: if not decision['should_retrain']: return None
retraining_due_always(decision) == TRUE

retraining_due(decision) == decision.should_retrain

\* check_and_retrain as a value: the decision, then the retraining if it is due
check_and_retrain_of(min_confidence, fails_stats, fails_count, fetched, fails_training, fails_saving, leaves, fails_database, fails_record, test_accuracy) ==
    LET decision == should_retrain_of(min_confidence, fails_stats, fails_count)
        done == execute_retraining_of(fetched, fails_training, fails_saving,
                    leaves, fails_database, fails_record, test_accuracy)
    IN IF ~retraining_due(decision)
       THEN [dir |-> MODELS_DIR, rows |-> model_versions, file |-> history,
             none |-> TRUE, decision |-> decision,
             calls |-> <<"should_retrain">>]
       ELSE [dir |-> done.dir, rows |-> done.rows, file |-> done.file,
             none |-> FALSE, decision |-> decision, result |-> done.value,
             calls |-> <<"should_retrain", "execute_retraining">> \o done.calls]

\* the call ContinuousLearner.check_and_retrain; none: it returned None
check_and_retrain(min_confidence, fails_stats, fails_count, fetched, fails_training, fails_saving, leaves, fails_database, fails_record, test_accuracy) ==
    LET done == check_and_retrain_of(min_confidence, fails_stats, fails_count,
                    fetched, fails_training, fails_saving, leaves,
                    fails_database, fails_record, test_accuracy)
    IN /\ MODELS_DIR' = done.dir
       /\ model_versions' = done.rows
       /\ history' = done.file
       /\ ret' = [op |-> "check_and_retrain",
                  args |-> [fetched |-> fetched],
                  raised |-> FALSE,
                  none |-> done.none,
                  calls |-> done.calls,
                  value |-> IF done.none THEN [decision |-> done.decision]
                            ELSE [decision |-> done.decision,
                                  result |-> done.result]]
       /\ UNCHANGED <<now, repository, preds, bulk, scan, slots, recording,
                      devices>>

-----------------------------------------------------------------------------
(* Retraining: a learner that decides and retrains, beside trainings made   *)
(* through the manager.                                                     *)

TestAccuracies == {Frac(75, 100)}

RetrainingInstants == {0, 1, 96}

InitRetraining ==
    /\ now = 0
    /\ repository \in BOOLEAN
    /\ preds = <<>>
    /\ bulk \in LearnerBulks
    /\ scan = [s \in Scanners |-> Idle]
    /\ ret = NoRet
    /\ MODELS_DIR = {}
    /\ Constructed

NextRetraining ==
    \/ Tick(RetrainingInstants)
    \/ /\ Cardinality(MODELS_DIR) < MaxModels
       /\ Len(model_versions) < MaxModels
       /\ \E prefix \in VersionPrefixes, fd \in BOOLEAN :
             train_new_model(prefix, FALSE, "none", "absent", fd)
    \/ \E fetched \in Fetches, ft \in BOOLEAN, fs \in {"none", "scaler"},
          fr \in BOOLEAN, acc \in TestAccuracies :
          execute_retraining(fetched, ft, fs, "cut", FALSE, fr, acc)
    \/ \E mc \in MinConfidences, f \in BOOLEAN, fetched \in Fetches,
          acc \in TestAccuracies :
          check_and_retrain(mc, f, f, fetched, FALSE, "none", "cut", FALSE, FALSE, acc)

SpecRetraining == InitRetraining /\ [][NextRetraining]_vars

\* the execute_retraining call just completed
Retrained == ret.op = "execute_retraining"

\* C11: execute_retraining does not raise; it returns a result with a success
\* field, and whenever the fetch gave no bars or a step after it raised, the
\* result has success = false and an error field
C11_NeverRaises ==
    Retrained =>
        /\ ret.raised = FALSE
        /\ "success" \in DOMAIN ret.value
        /\ ret.value.success = FALSE => "error" \in DOMAIN ret.value
        /\ (ret.args.fetched # "bars" \/ ret.args.fails_training
              \/ "_store_retraining_record" \notin Range(ret.calls))
           => ret.value.success = FALSE /\ "error" \in DOMAIN ret.value

\* bars were fetched and the call to train_new_model raised: a failure result
C11_Witness ==
    /\ Retrained
    /\ ret.args.fetched = "bars"
    /\ ret.calls = <<"get_ohlcv", "train_new_model">>
    /\ ret.value = [success |-> FALSE, error |-> "TypeError"]

\* C12: when the fetch returns bars and training does not fail,
\* execute_retraining returns success = true with the version, that version is
\* among list_models, and the last history entry has it with trigger 'automatic'
C12_SuccessfulRetraining ==
    (Retrained /\ ret.args.fetched = "bars" /\ ~ret.args.fails_training)
    => /\ ret.value.success = TRUE
       /\ ret.value.version \in Range(list_models)
       /\ Len(history.entries) > 0
       /\ history.entries[Len(history.entries)].version = ret.value.version
       /\ history.entries[Len(history.entries)].trigger = "automatic"

\* C20: a check_and_retrain step whose decision is should_retrain = true calls
\* execute_retraining exactly once and returns the decision and that result;
\* one whose decision is false returns None, makes no other call and leaves
\* MODELS_DIR, the model_versions table and the history file as they were
C20_DecisionThenExecution ==
    [][ret'.op = "check_and_retrain" =>
          IF ret'.value.decision.should_retrain
          THEN /\ ~ret'.none
               /\ Cardinality({i \in DOMAIN ret'.calls :
                                  ret'.calls[i] = "execute_retraining"}) = 1
               /\ "result" \in DOMAIN ret'.value
               /\ "success" \in DOMAIN ret'.value.result
          ELSE /\ ret'.none
               /\ ret'.calls = <<"should_retrain">>
               /\ UNCHANGED <<MODELS_DIR, model_versions, history>>]_vars

\* the last training a day ago: the retraining is due and is run once
C20_Witness ==
    /\ ret.op = "check_and_retrain"
    /\ MODELS_DIR # {}
    /\ ret.value.decision.should_retrain = TRUE
    /\ ~ret.none
    /\ ret.calls = <<"should_retrain", "execute_retraining", "get_ohlcv", "train_new_model">>

\* a model trained within the day and no recommendation of the tracker: None
C20_WitnessNone ==
    /\ ret.op = "check_and_retrain"
    /\ ret.value.decision.should_retrain = FALSE
    /\ ret.none

-----------------------------------------------------------------------------
(* ModelManager: loading a version into the active slots, and predicting.   *)
(* An active slot holds the version whose file the object was loaded from.  *)

\* load_model, lines 131-139: both paths must exist, then the model is read
\* and assigned; False is returned when a path is missing or the read raises.
\* The call goes on to the scaler in load_model_finish.
load_model_begin(version) ==
    LET files == FilesOf(version)
    IN /\ loading.pc = "idle"
       /\ IF files.model = "complete" /\ files.scaler # "absent"
          THEN /\ active_model' = version
               /\ loading' = [pc |-> "scaler", version |-> version,
                              before |-> [model |-> active_model,
                                          scaler |-> active_scaler]]
               /\ ret' = NoRet
          ELSE /\ ret' = [op |-> "load_model", version |-> version,
                          raised |-> FALSE, value |-> FALSE,
                          before |-> [model |-> active_model,
                                      scaler |-> active_scaler]]
               /\ UNCHANGED <<active_model, loading>>
       /\ UNCHANGED <<now, repository, preds, bulk, scan, MODELS_DIR,
                      active_scaler, loaded, model_versions, journal, devices>>

\* load_model, lines 140-147: the scaler is read and assigned and True
\* returned; when the read raises, False is returned
load_model_finish ==
    LET version == loading.version
        readable == FilesOf(version).scaler = "complete"
    IN /\ loading.pc = "scaler"
       /\ active_scaler' = IF readable THEN version ELSE active_scaler
       /\ loaded' = IF readable THEN loaded \cup {version} ELSE loaded
       /\ loading' = NoLoad
       /\ ret' = [op |-> "load_model", version |-> version,
                  raised |-> FALSE, value |-> readable,
                  before |-> loading.before]
       /\ UNCHANGED <<now, repository, preds, bulk, scan, MODELS_DIR,
                      active_model, model_versions, journal, devices>>

\* predict, lines 149-159: ValueError without an active model; the scaler is
\* used first, and a scaler that is None has no transform. The call is taken
\* as one step: it reads both slots at one instant.
predict ==
    /\ ret' = [op |-> "predict",
               raised |-> CASE active_model = NoVersion -> "No active model loaded"
                            [] active_scaler = NoVersion -> "AttributeError"
                            [] OTHER -> "nothing",
               model |-> active_model,
               scaler |-> active_scaler]
    /\ UNCHANGED <<now, repository, preds, bulk, scan, MODELS_DIR, slots,
                   model_versions, journal, devices>>

ManagerInstants == {0, 1}

\* a version none was saved under
MissingVersion == Version("v_", 0 - 1)

InitManager ==
    /\ now = 0
    /\ repository \in BOOLEAN
    /\ preds = <<>>
    /\ bulk = NoBulk
    /\ scan = [s \in Scanners |-> Idle]
    /\ ret = NoRet
    /\ MODELS_DIR = {}
    /\ Constructed

NextManager ==
    \/ Tick(ManagerInstants)
    \/ /\ Cardinality(MODELS_DIR) < MaxModels
       /\ Len(model_versions) < MaxModels
       /\ \E prefix \in VersionPrefixes, ft \in BOOLEAN, fs \in SaveFailures,
             leaves \in Leavings, fd \in BOOLEAN :
             train_new_model(prefix, ft, fs, leaves, fd)
    \/ \E version \in {e.version : e \in MODELS_DIR} \cup {MissingVersion} :
          load_model_begin(version)
    \/ load_model_finish
    \/ predict

SpecManager == InitManager /\ [][NextManager]_vars

\* a version's three artifacts are all on disk and whole
AllWritten(version) ==
    LET files == FilesOf(version)
    IN /\ files.model = "complete"
       /\ files.scaler = "complete"
       /\ files.metadata = "complete"

\* C13: a version lacking any of its three artifacts (after any prefix of
\* save_model's writes) is not returned by list_models, and load_model does
\* not load it.
C13_ValidTogether ==
    \A e \in MODELS_DIR :
        ~AllWritten(e.version) =>
            /\ e.version \notin Range(list_models)
            /\ ~(ret.op = "load_model" /\ ret.version = e.version /\ ret.value)

\* C14: a predict call that returns a prediction, at any point of a
\* load_model call or a retraining, used a model and a scaler of one version.
C14_SameVersion ==
    (ret.op = "predict" /\ ret.raised = "nothing") => ret.model = ret.scaler

\* C15: a load_model call for a version with a missing or unreadable artifact
\* returns False without raising, and active_model and active_scaler are
\* what they were before the call.
C15_FailsSoftly ==
    (ret.op = "load_model" /\ ~AllWritten(ret.version)) =>
        /\ ~ret.raised
        /\ ~ret.value
        /\ active_model = ret.before.model
        /\ active_scaler = ret.before.scaler

\* C16: while no load_model call has succeeded, every predict call raises
\* the 'No active model loaded' error.
C16_NothingLoaded ==
    (ret.op = "predict" /\ loaded = {}) => ret.raised = "No active model loaded"

\* C17: train_new_model registers its version as active, and returns a
\* training result, only if save_model wrote all three artifacts of the
\* version.
C17_PromotedWhenWritten ==
    (ret.op = "train_new_model" /\ (ret.create_model_version \/ ~ret.raised)) =>
        /\ ret.save_model
        /\ AllWritten(ret.value)

\* C18: of two saved versions, the one trained later comes earlier in the
\* list list_models returns, for 'v_' and 'v2.0.0_auto_' identifiers alike.
C18_NewestFirst ==
    \A i, j \in DOMAIN list_models :
        i < j => list_models[i].timestamp >= list_models[j].timestamp

-----------------------------------------------------------------------------
(* ContinuousLearner._store_retraining_record (lines 262-289) step by step, *)
(* for calls of several threads or processes on one history file.           *)

MaxHistory == 3

Triggers == {"automatic", "manual"}

\* lines 270-282: the file is read into a list and the new record appended
\* to the list; a file that cannot be parsed raises, which is logged
store_retraining_record_read(w, version, accuracy, trigger) ==
    /\ recording[w].pc = "idle"
    /\ Len(history.entries) < MaxHistory
    /\ recording' = [recording EXCEPT ![w] =
           IF history.cut THEN NoRecord
           ELSE [pc |-> "write",
                 history |-> Append(history.entries,
                                    HistoryEntry(version, accuracy, trigger))]]
    /\ ret' = NoRet
    /\ UNCHANGED <<now, repository, preds, bulk, scan, MODELS_DIR, slots,
                   model_versions, history, devices>>

\* lines 284-289: the list is written over the file
store_retraining_record_write(w, fails, leaves) ==
    /\ recording[w].pc = "write"
    /\ history' = history_written(history, recording[w].history, fails, leaves)
    /\ recording' = [recording EXCEPT ![w] = NoRecord]
    /\ ret' = [op |-> "_store_retraining_record", raised |-> FALSE,
               value |-> NoValue]
    /\ UNCHANGED <<now, repository, preds, bulk, scan, MODELS_DIR, slots,
                   model_versions, devices>>

HistoryInstants == {0, 1}

InitHistory ==
    /\ now = 0
    /\ repository = FALSE
    /\ preds = <<>>
    /\ bulk = NoBulk
    /\ scan = [s \in Scanners |-> Idle]
    /\ ret = NoRet
    /\ MODELS_DIR = {}
    /\ Constructed

NextHistory ==
    \/ Tick(HistoryInstants)
    \/ \E w \in Recorders, prefix \in VersionPrefixes, acc \in TestAccuracies,
          trigger \in Triggers :
          store_retraining_record_read(w, Version(prefix, now), acc, trigger)
    \/ \E w \in Recorders, fails \in BOOLEAN, leaves \in Leavings :
          store_retraining_record_write(w, fails, leaves)

SpecHistory == InitHistory /\ [][NextHistory]_vars

IsPrefix(s, t) == Len(s) <= Len(t) /\ \A i \in DOMAIN s : s[i] = t[i]

\* C19: every write of a retraining record keeps the entries the history
\* file held, unchanged and in their order, and adds new entries at the end
\* only, also when the writes of two calls interleave.
C19_AppendOnly == [][IsPrefix(history.entries, history'.entries)]_vars

-----------------------------------------------------------------------------
(* Best-effort tracking: every call of the tracker with the repository      *)
(* absent, or with any repository call raising.                              *)

BestEffortBulks ==
    {NoBulk, [unverified |-> 201, correct |-> 60, incorrect |-> 40, stale |-> 0]}

BestEffortPreds == 2

BestEffortInstants == {0, 1, 2}

InitBestEffort ==
    /\ now = 0
    /\ repository \in BOOLEAN
    /\ preds = <<>>
    /\ bulk \in BestEffortBulks
    /\ scan = [s \in Scanners |-> Idle]
    /\ ret = NoRet
    /\ MODELS_DIR = {}
    /\ Constructed

NextBestEffort ==
    \/ Tick(BestEffortInstants)
    \/ \E sent \in {"BULLISH", "NEUTRAL"}, f \in BOOLEAN :
          /\ Len(preds) < BestEffortPreds
          /\ store_prediction("EURUSD", "M1", sent, 10000, f)
    \/ \E cp \in ScanPrices, f \in BOOLEAN :
          verify_predictions_begin(1, "EURUSD", cp, 24, f)
    \/ \E f \in BOOLEAN : verify_predictions_step(1, f)
    \/ verify_predictions_return(1)
    \/ \E sym \in {NoSymbol, "EURUSD"}, d \in CheckDays, f \in BOOLEAN :
          get_recent_accuracy(sym, d, f)
    \/ \E ma \in MinAccuracies, mp \in MinPredictions, d \in CheckDays,
          f1 \in BOOLEAN, f2 \in BOOLEAN :
          needs_retraining(ma, mp, d, f1, f2)

SpecBestEffort == InitBestEffort /\ [][NextBestEffort]_vars

ZeroStatistics(statistics) ==
    /\ statistics.total = 0
    /\ statistics.correct = 0
    /\ statistics.accuracy.num = 0

-----------------------------------------------------------------------------
(* verify_predictions: what one scan leaves undone, what it returns, and    *)
(* what lookback_hours does.                                                 *)

\* the row can be verified now: unverified, its window elapsed, and its
\* stored price usable as a divisor
Eligible(id) ==
    /\ ~preds[id].is_verified
    /\ ~not_old_enough(now - preds[id].timestamp,
                       get_verification_window(preds[id].timeframe))
    /\ preds[id].price_at_prediction # 0

\* C26: when a scan ends, none of the rows it read is left unexamined that
\* is eligible for verification: a failure at one row does not keep the scan
\* from the other rows.
C26_IndependentChecks ==
    [][\A s \in Scanners :
          (scan[s].pc = "loop" /\ scan'[s].pc = "idle") =>
              \A k \in (scan[s].idx + 1)..Len(scan[s].predictions) :
                  ~Eligible(scan[s].predictions[k])]_vars

\* C27: the integer a verify_predictions call returns is the number of rows
\* it read as unverified that are verified when it returns.
C27_ReturnsVerifiedCount ==
    ret.op = "verify_predictions" =>
        ret.value = Cardinality({id \in Range(ret.predictions) :
                                    preds[id].is_verified})

\* C28: a scan verifies only rows created within its last lookback_hours
\* hours (4 quarter hours each).
C28_LookbackBounds ==
    [][\A id \in DOMAIN preds :
          (~preds[id].is_verified /\ preds'[id].is_verified) =>
              \E s \in Scanners :
                  /\ scan[s].pc = "loop"
                  /\ now - preds[id].timestamp <= scan[s].lookback_hours * 4]_vars

-----------------------------------------------------------------------------
(* FeatureEngineer.create_features (feature_engineering.py, lines 35-165).  *)
(* A table is its rows (bar numbers, oldest first) and its columns; a       *)
(* derived column is undefined in the rows of its warm-up.  The bars         *)
(* themselves hold no undefined value.                                       *)

FeatureGroups == {"indicator", "price", "volume", "time", "smc"}

\* the columns _add_smc_features assigns, in its order (lines 156-160)
SmcColumns == <<"recent_highs", "recent_lows", "trend_strength">>

\* the bar table passed in
Bars(n) == [rows |-> 1..n, columns |-> {"ohlcv"}]

\* the number of leading rows in which a column is undefined: pct_change
\* over 10 rows (line 120), a rolling mean of 20 (line 139), rolling windows
\* of 20 (lines 156-157) and a shift of 20 (line 160); the indicators'
\* warm-up, computed outside this file, is an input
warm_up(column, indicator_warm_up) ==
    CASE column = "indicator" -> indicator_warm_up
      [] column = "price" -> 10
      [] column = "volume" -> 19
      [] column = "recent_highs" -> 19
      [] column = "recent_lows" -> 19
      [] column = "trend_strength" -> 20
      [] OTHER -> 0

\* line 66: rows with an undefined value in any column are dropped
dropna(table, indicator_warm_up) ==
    [table EXCEPT !.rows =
        {i \in @ : \A c \in table.columns : i > warm_up(c, indicator_warm_up)}]

\* _add_smc_features (lines 152-165): an exception is caught inside, and the
\* columns assigned before it stay; done: how many were assigned
add_smc_features(table, fails, done) ==
    [table EXCEPT !.columns =
        @ \cup {SmcColumns[k] : k \in 1..(IF fails THEN done ELSE Len(SmcColumns))}]

\* create_features (lines 45-74): an exception of the indicator, price,
\* volume or time group reaches the except clause, which returns df
create_features_of(n, fails, indicator_warm_up, done) ==
    IF fails \in {"indicator", "price", "volume", "time"}
    THEN Bars(n)
    ELSE dropna(add_smc_features(
                    [Bars(n) EXCEPT !.columns =
                        @ \cup {"indicator", "price", "volume", "time"}],
                    fails = "smc", done),
                indicator_warm_up)

\* the call FeatureEngineer.create_features
create_features(n, fails, indicator_warm_up, done) ==
    /\ ret' = [op |-> "create_features",
               args |-> [rows |-> n, fails |-> fails,
                         indicator_warm_up |-> indicator_warm_up],
               raised |-> FALSE,
               value |-> create_features_of(n, fails, indicator_warm_up, done)]
    /\ UNCHANGED <<now, repository, preds, bulk, scan, MODELS_DIR, slots,
                   model_versions, journal, devices>>

BarCounts == {1, 2, 10, 11, 19, 20, 21, 199, 200, 201, 250}

\* no warm-up, and that of a mean over 200 rows (line 107)
IndicatorWarmUps == {0, 199}

InitFeatures ==
    /\ now = 0
    /\ repository = FALSE
    /\ preds = <<>>
    /\ bulk = NoBulk
    /\ scan = [s \in Scanners |-> Idle]
    /\ ret = NoRet
    /\ MODELS_DIR = {}
    /\ Constructed

NextFeatures ==
    \E n \in BarCounts, fails \in FeatureGroups \cup {"none"},
       w \in IndicatorWarmUps, done \in 0..2 :
       create_features(n, fails, w, done)

SpecFeatures == InitFeatures /\ [][NextFeatures]_vars

\* C22: when one feature group raises, the table create_features returns
\* still holds the columns of every other group.
C22_LocalFailures ==
    (ret.op = "create_features" /\ ret.args.fails # "none") =>
        /\ ({"indicator", "price", "volume", "time"} \ {ret.args.fails})
               \subseteq ret.value.columns
        /\ (ret.args.fails # "smc" => Range(SmcColumns) \subseteq ret.value.columns)

\* C23: the table create_features returns has fewer rows than the bar table
\* it was given, and no row of it holds an undefined value.
C23_RowReduction ==
    ret.op = "create_features" =>
        /\ Cardinality(ret.value.rows) < ret.args.rows
        /\ \A i \in ret.value.rows, c \in ret.value.columns :
               i > warm_up(c, ret.args.indicator_warm_up)

-----------------------------------------------------------------------------
(* The multi-timeframe analyzer (src/analysis/multi_timeframe.py is not      *)
(* among the sources: modelled from the contract the specification gives).   *)
(* app.py (lines 310-329) shows alignment['score'] and                       *)
(* alignment['total_timeframes'] of its result.                              *)

MaxTimeframes == 4

\* the number of timeframes whose sentiment is the given one
matching(sentiments, sentiment) ==
    Cardinality({i \in DOMAIN sentiments : sentiments[i] = sentiment})

\* the size of the majority, or of the largest plurality
majority(sentiments) ==
    CHOOSE m \in 0..Len(sentiments) :
        /\ \E sentiment \in Sentiments : matching(sentiments, sentiment) = m
        /\ \A sentiment \in Sentiments : matching(sentiments, sentiment) <= m

\* a score that counts only the timeframes agreeing on a direction
alignment_score_directional(sentiments) ==
    LET up == matching(sentiments, "BULLISH")
        down == matching(sentiments, "BEARISH")
    IN Frac(IF up >= down THEN up ELSE down, Len(sentiments))

\* alignment score: the fraction of timeframes whose sentiment matches the
\* majority sentiment
alignment_score(sentiments) == Frac(majority(sentiments), Len(sentiments))

\* analyze_multiple_timeframes over the per-timeframe sentiments
analyze_multiple_timeframes(sentiments) ==
    /\ ret' = [op |-> "analyze_multiple_timeframes",
               args |-> [sentiments |-> sentiments],
               raised |-> FALSE,
               value |-> [alignment |->
                             [score |-> alignment_score(sentiments),
                              total_timeframes |-> Len(sentiments)]]]
    /\ UNCHANGED <<now, repository, preds, bulk, scan, MODELS_DIR, slots,
                   model_versions, journal, devices>>

InitAlignment ==
    /\ now = 0
    /\ repository = FALSE
    /\ preds = <<>>
    /\ bulk = NoBulk
    /\ scan = [s \in Scanners |-> Idle]
    /\ ret = NoRet
    /\ MODELS_DIR = {}
    /\ Constructed

NextAlignment ==
    \E n \in 1..MaxTimeframes : \E sentiments \in [1..n -> Sentiments] :
        analyze_multiple_timeframes(sentiments)

SpecAlignment == InitAlignment /\ [][NextAlignment]_vars

\* C24: for every result over N >= 1 timeframes the alignment score is
\* between 0 and 1, it is 1 exactly when all timeframe sentiments are the
\* same, and it is the fraction of timeframes that hold the most frequent
\* sentiment.
C24_AlignmentBound ==
    ret.op = "analyze_multiple_timeframes" =>
        LET sentiments == ret.args.sentiments
            score == ret.value.alignment.score
            unanimous == \A i, j \in DOMAIN sentiments : sentiments[i] = sentiments[j]
        IN /\ score.den = Len(sentiments) /\ score.den >= 1
           /\ 0 <= score.num /\ score.num <= score.den
           /\ (score.num = score.den) <=> unanimous
           /\ \E sentiment \in Sentiments :
                 /\ score.num = matching(sentiments, sentiment)
                 /\ \A other \in Sentiments :
                       matching(sentiments, other) <= score.num

\* a split of four timeframes without a majority has been scored by its
\* largest plurality
C24_Witness ==
    /\ ret.op = "analyze_multiple_timeframes"
    /\ ret.args.sentiments = <<"BULLISH", "BEARISH", "NEUTRAL", "BEARISH">>
    /\ ret.value.alignment.score = Frac(2, 4)

\* three timeframes that all return BULLISH score 1
C24_WitnessUnanimous ==
    /\ ret.op = "analyze_multiple_timeframes"
    /\ ret.args.sentiments = <<"BULLISH", "BULLISH", "BULLISH">>
    /\ ret.value.alignment.score = Frac(3, 3)

-----------------------------------------------------------------------------
(* MT5Connector (src/mt5_connector.py).  The MetaTrader5 module is not      *)
(* among the sources: each of its calls succeeds, fails or raises as the    *)
(* connector's code provides for, and its terminal session can end or be    *)
(* started by others at any time.                                            *)

\* the points at which connect can fail (lines 55-177), and success
ConnectOutcomes ==
    {"Invalid login", "Invalid password", "Invalid server",
     "MetaTrader5 package error", "Initialization failed", "Login failed",
     "Failed to get account info", "Connected"}

\* lines 55-196: the attributes after connect; only the last step sets
\* connected
connected_by(c, outcome) ==
    IF outcome = "Connected"
    THEN [connected |-> TRUE, last_error |-> NoValue, connection_time |-> now]
    ELSE [c EXCEPT !.last_error = outcome]

\* lines 95-177: what connect leaves of the terminal session: the failures
\* after initialize shut it down, the ones before it do not touch it
terminal_by(outcome) ==
    CASE outcome = "Connected" -> "up"
      [] outcome \in {"Initialization failed", "Login failed",
                      "Failed to get account info"} -> "down"
      [] OTHER -> terminal

\* MT5Connector.connect
connect(outcome) ==
    /\ connector' = connected_by(connector, outcome)
    /\ terminal' = terminal_by(outcome)
    /\ ret' = [op |-> "connect", raised |-> FALSE,
               value |-> [success |-> outcome = "Connected", message |-> outcome]]
    /\ UNCHANGED <<now, repository, preds, bulk, scan, MODELS_DIR, slots,
                   model_versions, journal, stats, session_state,
                   first_run_config>>

\* lines 211-212 with connection_time left as it was
after_disconnect_timed(c) == [c EXCEPT !.connected = FALSE]

\* lines 211-212
after_disconnect(c) ==
    [c EXCEPT !.connected = FALSE, !.connection_time = NoTime]

\* MT5Connector.disconnect (lines 209-222); fails: mt5.shutdown raises, and
\* leaves the terminal session as it was or ended
disconnect(fails, leaves) ==
    /\ connector' = IF fails
                    THEN [connector EXCEPT !.last_error = "Disconnect error"]
                    ELSE after_disconnect(connector)
    /\ terminal' = IF fails THEN leaves ELSE "down"
    /\ fails => leaves \in {terminal, "down"}
    /\ ret' = [op |-> "disconnect", raised |-> FALSE,
               value |-> [success |-> ~fails,
                          message |-> IF fails THEN "Disconnect error"
                                      ELSE "Disconnected successfully"]]
    /\ UNCHANGED <<now, repository, preds, bulk, scan, MODELS_DIR, slots,
                   model_versions, journal, stats, session_state,
                   first_run_config>>

\* is_connected (lines 231-242) as a value; raises: mt5.account_info raises
is_connected_of(c, raises) == c.connected /\ terminal = "up" /\ ~raises

\* MT5Connector.is_connected: a connector that finds no account clears its
\* flag
is_connected(raises) ==
    /\ connector' = [connector EXCEPT !.connected = is_connected_of(connector, raises)]
    /\ ret' = [op |-> "is_connected", raised |-> FALSE,
               value |-> is_connected_of(connector, raises)]
    /\ UNCHANGED <<now, repository, preds, bulk, scan, MODELS_DIR, slots,
                   model_versions, journal, terminal, stats, session_state,
                   first_run_config>>

\* MT5Connector.get_account_info (lines 251-273); raises, again: the first
\* and the second mt5.account_info call raise or find no account
get_account_info(raises, again) ==
    /\ connector' = [connector EXCEPT !.connected = is_connected_of(connector, raises)]
    /\ ret' = [op |-> "get_account_info", raised |-> FALSE,
               value |-> IF is_connected_of(connector, raises) /\ ~again
                         THEN "account" ELSE NoValue]
    /\ UNCHANGED <<now, repository, preds, bulk, scan, MODELS_DIR, slots,
                   model_versions, journal, terminal, stats, session_state,
                   first_run_config>>

\* MT5Connector.get_status (lines 282-288)
get_status(raises) ==
    /\ connector' = [connector EXCEPT !.connected = is_connected_of(connector, raises)]
    /\ ret' = [op |-> "get_status", raised |-> FALSE,
               value |-> [connected |-> is_connected_of(connector, raises),
                          connection_time |-> connector.connection_time,
                          last_error |-> connector.last_error]]
    /\ UNCHANGED <<now, repository, preds, bulk, scan, MODELS_DIR, slots,
                   model_versions, journal, terminal, stats, session_state,
                   first_run_config>>

\* the terminal is closed, or started and logged in, by someone else
terminal_changes ==
    /\ terminal' = IF terminal = "up" THEN "down" ELSE "up"
    /\ ret' = NoRet
    /\ UNCHANGED <<now, repository, preds, bulk, scan, MODELS_DIR, slots,
                   model_versions, journal, connector, stats, session_state,
                   first_run_config>>

ConnectorInstants == {0, 1, 2}

InitConnector ==
    /\ now = 0
    /\ repository = FALSE
    /\ preds = <<>>
    /\ bulk = NoBulk
    /\ scan = [s \in Scanners |-> Idle]
    /\ ret = NoRet
    /\ MODELS_DIR = {}
    /\ Constructed

NextConnector ==
    \/ Tick(ConnectorInstants)
    \/ \E outcome \in ConnectOutcomes : connect(outcome)
    \/ \E fails \in BOOLEAN, leaves \in {"up", "down"} : disconnect(fails, leaves)
    \/ \E raises \in BOOLEAN : is_connected(raises)
    \/ \E raises \in BOOLEAN, again \in BOOLEAN : get_account_info(raises, again)
    \/ \E raises \in BOOLEAN : get_status(raises)
    \/ terminal_changes

SpecConnector == InitConnector /\ [][NextConnector]_vars

\* a call has just reported the connector as connected
ReportedConnected ==
    \/ ret.op = "is_connected" /\ ret.value
    \/ ret.op = "get_status" /\ ret.value.connected
    \/ ret.op = "get_account_info" /\ ret.value = "account"

\* the flag is raised by a connect that returned success only; connection_time
\* changes with a successful connect or disconnect only; a connect that
\* returns failure from a disconnected state leaves the connector
\* disconnected with last_error the returned message
SessionOpens ==
    /\ [][(connector'.connected /\ ~connector.connected) =>
             (ret'.op = "connect" /\ ret'.value.success)]_vars
    /\ [][(connector'.connection_time # connector.connection_time) =>
             (ret'.op \in {"connect", "disconnect"} /\ ret'.value.success)]_vars
    /\ [][(ret'.op = "connect" /\ ~ret'.value.success /\ ~connector.connected) =>
             (~connector'.connected /\ connector'.last_error = ret'.value.message)]_vars

\* C25 as stated: the connector is reported connected only while its flag
\* is set, which a successful connect sets and the next disconnect call,
\* whatever it returns, clears.
C25_Original ==
    /\ [](ReportedConnected => connector.connected)
    /\ SessionOpens
    /\ [][(ret'.op = "disconnect") =>
             (~connector'.connected /\ connector'.connection_time = NoTime)]_vars

\* C25: the connector is reported connected (is_connected, get_status,
\* get_account_info) only between a connect that returned success and the
\* next disconnect that returned success; after a disconnect that returned
\* success connected is False and connection_time is None; a connect that
\* returns failure from a disconnected state leaves it disconnected with
\* last_error the returned message.
C25_Session ==
    /\ [](ReportedConnected => connector.connected)
    /\ SessionOpens
    /\ [][(ret'.op = "disconnect" /\ ret'.value.success) =>
             (~connector'.connected /\ connector'.connection_time = NoTime)]_vars

\* after a successful connect at a later instant a disconnect that returned
\* failure has left the connector connected, and the next status call
\* reported it connected
C25_Witness ==
    /\ ret.op = "get_status"
    /\ ret.value.connected
    /\ ret.value.connection_time = 1
    /\ ret.value.last_error = "Disconnect error"

\* after a disconnect that returned success the account is not returned
C25_WitnessDisconnected ==
    /\ ret.op = "get_account_info"
    /\ ret.value = NoValue
    /\ terminal = "up"
    /\ connector.connection_time = NoTime
    /\ connector.last_error = "Login failed"

-----------------------------------------------------------------------------
(* MT5DataFetcher request accounting (src/src/mt5/data_fetcher.py).  The    *)
(* validator (src/mt5/validator.py) is not among the sources: it is taken   *)
(* to return a table, which may have lost rows, or to raise.                 *)

MaxRequests == 3

\* what the terminal's copy call and the conversion give: an exception,
\* None, an empty array, or rows
FetchOutcomes == {"raises", "none", "empty", "rows"}

\* the lengths of the tables returned
RowCounts == {0, 1, 100}

\* the statistics with a None or empty result returned without being counted
fetched_uncounted(st, outcome, rows, counter) ==
    LET started == [st EXCEPT !.total_requests = @ + 1]
    IN IF outcome = "rows"
       THEN [started EXCEPT !.successful_requests = @ + 1, ![counter] = @ + rows]
       ELSE IF outcome = "raises"
       THEN [started EXCEPT !.failed_requests = @ + 1]
       ELSE started

\* lines 198-258 and 281-306: the statistics after a call; counter names
\* the row counter of the call, rows is len(df)
fetched(st, outcome, rows, counter) ==
    LET started == [st EXCEPT !.total_requests = @ + 1]
    IN IF outcome = "rows"
       THEN [started EXCEPT !.successful_requests = @ + 1, ![counter] = @ + rows]
       ELSE [started EXCEPT !.failed_requests = @ + 1]

\* the table a call returns, or None
fetch_result(outcome, rows) ==
    [table |-> outcome = "rows", rows |-> IF outcome = "rows" THEN rows ELSE 0]

\* MT5DataFetcher.get_ohlcv (lines 198-258)
get_ohlcv(outcome, rows) ==
    /\ stats.total_requests < MaxRequests
    /\ stats' = fetched(stats, outcome, rows, "total_bars_fetched")
    /\ ret' = [op |-> "get_ohlcv", raised |-> FALSE,
               value |-> fetch_result(outcome, rows)]
    /\ UNCHANGED <<now, repository, preds, bulk, scan, MODELS_DIR, slots,
                   model_versions, journal, connector, terminal, session_state,
                   first_run_config>>

\* MT5DataFetcher.get_ticks (lines 281-306)
get_ticks(outcome, rows) ==
    /\ stats.total_requests < MaxRequests
    /\ outcome = "rows" => rows > 0
    /\ stats' = fetched(stats, outcome, rows, "total_ticks_fetched")
    /\ ret' = [op |-> "get_ticks", raised |-> FALSE,
               value |-> fetch_result(outcome, rows)]
    /\ UNCHANGED <<now, repository, preds, bulk, scan, MODELS_DIR, slots,
                   model_versions, journal, connector, terminal, session_state,
                   first_run_config>>

\* MT5DataFetcher.get_statistics (lines 387-396); success_rate is left as
\* the fraction it is formatted from
get_statistics ==
    /\ ret' = [op |-> "get_statistics", raised |-> FALSE,
               value |-> [stats |-> stats,
                          success_rate |->
                              IF stats.total_requests > 0
                              THEN Frac(stats.successful_requests * 100,
                                        stats.total_requests)
                              ELSE Frac(0, 1)]]
    /\ UNCHANGED <<now, repository, preds, bulk, scan, MODELS_DIR, slots,
                   model_versions, journal, devices>>

InitFetcher ==
    /\ now = 0
    /\ repository = FALSE
    /\ preds = <<>>
    /\ bulk = NoBulk
    /\ scan = [s \in Scanners |-> Idle]
    /\ ret = NoRet
    /\ MODELS_DIR = {}
    /\ Constructed

NextFetcher ==
    \/ \E outcome \in FetchOutcomes, rows \in RowCounts : get_ohlcv(outcome, rows)
    \/ \E outcome \in FetchOutcomes, rows \in RowCounts : get_ticks(outcome, rows)
    \/ get_statistics

SpecFetcher == InitFetcher /\ [][NextFetcher]_vars

\* C30: after any sequence of get_ohlcv and get_ticks calls total_requests
\* is successful_requests + failed_requests; each call adds one to
\* total_requests and to exactly one of the two outcome counters, and the
\* bar and tick totals never shrink and grow only in a call that counted as
\* successful; get_statistics reports these counters.
C30_RequestAccounting ==
    /\ [](stats.total_requests = stats.successful_requests + stats.failed_requests)
    /\ [](ret.op = "get_statistics" => ret.value.stats = stats)
    /\ [][ret'.op \in {"get_ohlcv", "get_ticks"} =>
             /\ stats'.total_requests = stats.total_requests + 1
             /\ \/ /\ stats'.successful_requests = stats.successful_requests + 1
                   /\ stats'.failed_requests = stats.failed_requests
                   /\ ret'.value.table
                \/ /\ stats'.successful_requests = stats.successful_requests
                   /\ stats'.failed_requests = stats.failed_requests + 1
                   /\ ~ret'.value.table
                   /\ stats'.total_bars_fetched = stats.total_bars_fetched
                   /\ stats'.total_ticks_fetched = stats.total_ticks_fetched
             /\ stats'.total_bars_fetched >= stats.total_bars_fetched
             /\ stats'.total_ticks_fetched >= stats.total_ticks_fetched]_vars
    /\ [][ret'.op \notin {"get_ohlcv", "get_ticks"} => stats' = stats]_vars

\* a bar request and a tick request succeeded and a request that found
\* nothing was counted as failed
C30_Witness ==
    /\ stats.total_requests = 3
    /\ stats.successful_requests = 2
    /\ stats.failed_requests = 1
    /\ stats.total_bars_fetched = 100
    /\ stats.total_ticks_fetched = 1
    /\ ret.op = "get_ohlcv"
    /\ ~ret.value.table

-----------------------------------------------------------------------------
(* StartupWizard: the first-run setup (startup_wizard.py).                   *)

\* check_model_exists: a model_*.joblib file is in MODELS_DIR; fails: the
\* glob raises and the method answers False
check_model_exists_of(dir, fails) == ~fails /\ \E e \in dir : e.model # "absent"

\* should_show_wizard as a value (lines 345-360)
should_show_wizard_of(session, config, dir, fails) ==
    CASE session.wizard_skipped -> FALSE
      [] session.wizard_completed -> FALSE
      [] config # "absent" -> FALSE
      [] check_model_exists_of(dir, fails) -> FALSE
      [] OTHER -> TRUE

\* the keyword arguments of the call in execute_automatic_training, lines
\* 255-262
wizard_arguments ==
    {"df", "version", "tune_hyperparameters", "select_features",
     "calibrate_probabilities", "n_features"}

\* execute_automatic_training as a value: what it leaves of the connector, in
\* MODELS_DIR, in the model_versions table and of first_run_config.json,
\* whether it set wizard_completed, what it returns and how it ended.
\* raises: is_connected finds no account; fetch: what get_ohlcv gave;
\* fails_config: json.dump raises after the file was opened for writing
execute_automatic_training_of(raises, fetch, fails_training, fails_saving, leaves, fails_database, fails_config) ==
    LET version == Version("v2.0.0_auto_", now)
        checked == [connector EXCEPT !.connected = is_connected_of(connector, raises)]
        failed(error) ==
            [connector |-> checked, dir |-> MODELS_DIR, rows |-> model_versions,
             config |-> first_run_config, completed |-> FALSE,
             value |-> FALSE, error |-> error]
    IN CASE ~is_connected_of(connector, raises) -> failed("MT5 not connected")
         [] fetch = "raises" -> failed("get_ohlcv raised")
         [] fetch \in {"none", "empty"} -> failed("Failed to fetch data")
         [] ~call_accepted(wizard_arguments, train_new_model_parameters) ->
                failed("TypeError")
         [] fails_training -> failed("training raised")
         [] fails_config ->
                [connector |-> checked,
                 dir |-> saved(version, now, fails_saving, leaves),
                 rows |-> registered(version, now, fails_database),
                 config |-> "cut", completed |-> FALSE,
                 value |-> FALSE, error |-> "json.dump raised"]
         [] OTHER ->
                [connector |-> checked,
                 dir |-> saved(version, now, fails_saving, leaves),
                 rows |-> registered(version, now, fails_database),
                 config |-> "written", completed |-> TRUE,
                 value |-> TRUE, error |-> NoValue]

\* what the user does with the welcome screen (lines 166-196)
Clicks == {"none", "start", "skip"}

\* the result of a run that executed nothing
NotExecuted == [value |-> FALSE, error |-> "not called"]

\* StartupWizard.run (lines 362-379), with the welcome screen's two buttons.
\* started: the call found wizard_start_training set and executed the
\* training; faults: a failure of the trainer, the disk or the database was
\* injected
run(click, fails_glob, raises, fetch, fails_training, fails_saving, leaves, fails_database, fails_config) ==
    LET shown == should_show_wizard_of(session_state, first_run_config,
                                       MODELS_DIR, fails_glob)
        started == shown /\ session_state.wizard_start_training
        done == execute_automatic_training_of(raises, fetch, fails_training,
                    fails_saving, leaves, fails_database, fails_config)
    IN /\ session_state' =
              CASE ~shown -> session_state
                [] started -> [session_state EXCEPT
                                  !.wizard_completed = done.completed,
                                  !.wizard_start_training = FALSE]
                [] click = "start" ->
                       [session_state EXCEPT !.wizard_start_training = TRUE]
                [] click = "skip" ->
                       [session_state EXCEPT !.wizard_skipped = TRUE]
                [] OTHER -> session_state
       /\ connector' = IF started THEN done.connector ELSE connector
       /\ MODELS_DIR' = IF started THEN done.dir ELSE MODELS_DIR
       /\ model_versions' = IF started THEN done.rows ELSE model_versions
       /\ first_run_config' = IF started THEN done.config ELSE first_run_config
       /\ ret' = [op |-> "run", raised |-> FALSE, value |-> shown,
                  started |-> started,
                  welcome |-> shown /\ ~started,
                  connected |-> is_connected_of(connector, raises),
                  fetched |-> fetch,
                  faults |-> \/ fails_training \/ fails_saving # "none"
                             \/ fails_database \/ fails_config,
                  executed |-> IF started
                               THEN [value |-> done.value, error |-> done.error]
                               ELSE NotExecuted]
       /\ UNCHANGED <<now, repository, preds, bulk, scan, slots, journal,
                      terminal, stats>>

\* StartupWizard.should_show_wizard
should_show_wizard(fails_glob) ==
    /\ ret' = [op |-> "should_show_wizard", raised |-> FALSE,
               value |-> should_show_wizard_of(session_state, first_run_config,
                                               MODELS_DIR, fails_glob)]
    /\ UNCHANGED <<now, repository, preds, bulk, scan, MODELS_DIR, slots,
                   model_versions, journal, devices>>

\* what is made to fail in a run: nothing, or one of the training, a write of
\* save_model, the database row and the first-run record
WizardFaults ==
    {<<FALSE, "none", "absent", FALSE, FALSE>>,
     <<TRUE, "none", "absent", FALSE, FALSE>>,
     <<FALSE, "model", "cut", FALSE, FALSE>>,
     <<FALSE, "metadata", "absent", FALSE, FALSE>>,
     <<FALSE, "none", "absent", TRUE, FALSE>>,
     <<FALSE, "none", "absent", FALSE, TRUE>>}

\* the connection page's attempts: one that fails and one that succeeds
WizardConnects == {"Login failed", "Connected"}

InitWizard ==
    /\ now = 0
    /\ repository \in BOOLEAN
    /\ preds = <<>>
    /\ bulk = NoBulk
    /\ scan = [s \in Scanners |-> Idle]
    /\ ret = NoRet
    /\ MODELS_DIR = {}
    /\ Constructed

\* the pages of the application that touch what the wizard reads: the
\* connection settings, the wizard itself and the training tab
NextWizard ==
    \/ \E outcome \in WizardConnects : connect(outcome)
    \/ terminal_changes
    \/ \E click \in Clicks, fails_glob \in BOOLEAN, raises \in BOOLEAN,
          fetch \in Fetches, f \in WizardFaults :
          run(click, fails_glob, raises, fetch, f[1], f[2], f[3], f[4], f[5])
    \/ \E fails_glob \in BOOLEAN : should_show_wizard(fails_glob)
    \/ /\ MODELS_DIR = {}
       /\ model_versions = <<>>
       /\ \E f \in WizardFaults : train_new_model("v_", f[1], f[2], f[3], f[4])

SpecWizard == InitWizard /\ [][NextWizard]_vars

\* C29: once the automatic training was started with the connector connected
\* and a non-empty bar series fetched, and nothing fails in the trainer, on
\* the disk or in the database, execute_automatic_training returns True, a
\* model is in MODELS_DIR, first_run_config.json is written and
\* wizard_completed is set, so that should_show_wizard answers False from
\* then on.
C29_SetupCompletes ==
    [][(/\ ret'.op = "run"
        /\ ret'.started
        /\ ret'.connected
        /\ ret'.fetched = "bars"
        /\ ~ret'.faults) =>
          /\ ret'.executed.value
          /\ check_model_exists_of(MODELS_DIR', FALSE)
          /\ first_run_config' = "written"
          /\ session_state'.wizard_completed
          /\ \A fails_glob \in BOOLEAN :
                 ~should_show_wizard_of(session_state', first_run_config',
                                        MODELS_DIR', fails_glob)]_vars

\* the training was started with the connector connected and bars fetched,
\* it ended in a TypeError, and the wizard is back at the welcome screen with
\* nothing trained and nothing recorded
C29_BackAtWelcome ==
    /\ ret.op = "run"
    /\ ret.started
    /\ ret.connected
    /\ ret.fetched = "bars"
    /\ ~ret.faults
    /\ ret.executed.error = "TypeError"
    /\ MODELS_DIR = {}
    /\ first_run_config = "absent"
    /\ ~session_state.wizard_completed
    /\ ~session_state.wizard_start_training
    /\ should_show_wizard_of(session_state, first_run_config, MODELS_DIR, FALSE)

====
